---- MODULE Spec2Model ----
(***************************************************************************)
(* basketball_simulator: the Stats / Team records (models.py), the         *)
(* BBallRefStatFetcher (fetchers.py), the StatAdjuster protocol            *)
(* (protocols.py) and the GameSimulator (simulator.py).                    *)
(*                                                                         *)
(* A Python float is a record [cls, v]: cls = "num" is the finite value    *)
(* v / Scale, cls = "nan" is NaN, cls = "inf" is +infinity.                *)
(***************************************************************************)
EXTENDS Integers, FiniteSets, Sequences, TLC

VARIABLES stats, team, fetcher, row, sim, call, ret

vars == <<stats, team, fetcher, row, sim, call, ret>>

(* Fixed-point resolution of the finite floats: Num(Scale) is 1.0. *)
Scale == 100

(* ------------------------------------------------------------------ *)
(* Python values                                                      *)
(* ------------------------------------------------------------------ *)

None == [kind |-> "None"]

Return(v) == [kind |-> "return", value |-> v]

Raise(e) == [kind |-> "raise", exc |-> e]

Num(n) == [cls |-> "num", v |-> n]

NaN == [cls |-> "nan", v |-> 0]

PosInf == [cls |-> "inf", v |-> 0]

(* a <= b on floats: every comparison with NaN is False. *)
Le(a, b) ==
    /\ a.cls # "nan"
    /\ b.cls # "nan"
    /\ \/ b.cls = "inf"
       \/ a.cls = "num" /\ b.cls = "num" /\ a.v <= b.v

(* a > b on floats. *)
Gt(a, b) ==
    /\ a.cls # "nan"
    /\ b.cls # "nan"
    /\ b.cls = "num"
    /\ \/ a.cls = "inf"
       \/ a.cls = "num" /\ a.v > b.v

(* ------------------------------------------------------------------ *)
(* models.py                                                          *)
(* ------------------------------------------------------------------ *)

League == {"nba", "wnba", "ncaam", "ncaaw"}

(* The sixteen fields validate_percentage is registered for. *)
RateFields ==
    {"o_turnover_percentage", "o_rebound_percentage", "o_three_point_rate",
     "o_three_point_percentage", "o_free_throw_rate", "o_free_throw_percentage",
     "o_two_point_percentage", "o_two_point_rate",
     "d_turnover_percentage", "d_rebound_percentage", "d_three_point_rate",
     "d_three_point_percentage", "d_free_throw_rate", "d_free_throw_percentage",
     "d_two_point_percentage", "d_two_point_rate"}

(* Every field of Stats; none has a default, so all are required. *)
StatsFields ==
    RateFields \cup {"pace", "simple_rating_system", "strength_of_schedule"}

validate_percentage(v) ==
    IF ~ (Le(Num(0), v) /\ Le(v, Num(Scale)))
    THEN Raise("ValueError")
    ELSE Return(v)

validate_pace(v) ==
    IF Le(v, Num(0)) THEN Raise("ValueError") ELSE Return(v)

\* Stats constructed from the keyword arguments kw: a missing field or a
\* raising validator is a ValidationError; keys that are no field are ignored.
StatsInit(kw) ==
    IF ~ (StatsFields \subseteq DOMAIN kw)
    THEN Raise("ValidationError")
    ELSE IF \E f \in RateFields : validate_percentage(kw[f]).kind = "raise"
    THEN Raise("ValidationError")
    ELSE IF validate_pace(kw["pace"]).kind = "raise"
    THEN Raise("ValidationError")
    ELSE Return([kind |-> "Stats", fields |-> [f \in StatsFields |-> kw[f]]])

(* obj.field = v on a Stats: the class sets neither frozen nor         *)
(* validate_assignment, so the value is stored as given.               *)
StatsSetattr(obj, f, v) == [obj EXCEPT !.fields[f] = v]

validate_season(v) ==
    IF v < 1900 THEN Raise("ValueError") ELSE Return(v)

(* Team(name=, league=, season=, stats=) with stats a Stats instance. *)
TeamInit(name, league, season, st) ==
    IF league \notin League \/ st.kind # "Stats"
    THEN Raise("ValidationError")
    ELSE IF validate_season(season).kind = "raise"
    THEN Raise("ValidationError")
    ELSE Return([kind |-> "Team", name |-> name, league |-> league,
                 season |-> season, stats |-> st])

(* ------------------------------------------------------------------ *)
(* State after construction, and the inputs of the model              *)
(* ------------------------------------------------------------------ *)

\* BBallRefStatFetcher.__init__: the four per-league caches start as None.
FetcherInit ==
    [ncaam_stats |-> None, ncaaw_stats |-> None,
     nba_stats |-> None, wnba_stats |-> None]

Init ==
    /\ stats = None
    /\ team = None
    /\ fetcher = FetcherInit
    /\ row = None
    /\ sim = None
    /\ call = [op |-> "none"]
    /\ ret = None

\* Pace of the base record, in possessions per game.
BasePace == 70

\* A record every validator accepts.
BaseKwargs ==
    [f \in StatsFields |->
        IF f \in RateFields THEN Num(Scale \div 2)
        ELSE IF f = "pace" THEN Num(BasePace * Scale)
        ELSE Num(0)]

RateInputs == {Num(0 - 1), Num(0), Num(Scale), Num(Scale + 1), NaN}

PaceInputs == {Num(0 - 1), Num(0), Num(1), NaN, PosInf}

\* The base record, the base record with one field replaced, and the base
\* record with one field left out.
StatsKwargs ==
    {BaseKwargs}
    \cup {[BaseKwargs EXCEPT ![f] = v] : f \in RateFields, v \in RateInputs}
    \cup {[BaseKwargs EXCEPT !["pace"] = v] : v \in PaceInputs}
    \cup {[f \in StatsFields \ {g} |-> BaseKwargs[f]] :
             g \in {"o_two_point_rate", "pace"}}

SetattrInputs ==
    {<<"o_turnover_percentage", Num(Scale + 1)>>, <<"pace", Num(0)>>}

SeasonInputs == {1899, 1900, 1901, 2024}

TeamNames == {"Duke", "Kansas"}

ValidStats == StatsInit(BaseKwargs).value

(* ------------------------------------------------------------------ *)
(* Operations on the records                                          *)
(* ------------------------------------------------------------------ *)

\* stats = Stats(kw): on an exception the caller's variable keeps its value.
NewStats ==
    \E kw \in StatsKwargs :
        LET r == StatsInit(kw) IN
        /\ call' = [op |-> "Stats", kw |-> kw]
        /\ ret' = r
        /\ stats' = IF r.kind = "return" THEN r.value ELSE stats
        /\ UNCHANGED <<team, fetcher, row, sim>>

\* stats.f = v
SetStatsField ==
    /\ stats.kind = "Stats"
    /\ \E p \in SetattrInputs :
        /\ call' = [op |-> "setattr", field |-> p[1], value |-> p[2]]
        /\ ret' = Return(None)
        /\ stats' = StatsSetattr(stats, p[1], p[2])
    /\ UNCHANGED <<team, fetcher, row, sim>>

\* team = Team(name=n, league=l, season=s, stats=ValidStats)
NewTeam ==
    \E n \in TeamNames, l \in League, s \in SeasonInputs :
        LET r == TeamInit(n, l, s, ValidStats) IN
        /\ call' = [op |-> "Team", name |-> n, league |-> l, season |-> s]
        /\ ret' = r
        /\ team' = IF r.kind = "return" THEN r.value ELSE team
        /\ UNCHANGED <<stats, fetcher, row, sim>>

NextStats == NewStats \/ SetStatsField

SpecStats == Init /\ [][NextStats]_vars

NextTeam == NewTeam

SpecTeam == Init /\ [][NextTeam]_vars

(* ------------------------------------------------------------------ *)
(* Claims about the records                                           *)
(* ------------------------------------------------------------------ *)

InUnitInterval(v) == Le(Num(0), v) /\ Le(v, Num(Scale))

\* The invariant the data model states: rates in [0,1] and pace > 0.
StatsInvariant(s) ==
    /\ \A f \in RateFields : InUnitInterval(s.fields[f])
    /\ Gt(s.fields["pace"], Num(0))

\* C1: constructing a Stats raises whenever one of the sixteen rate fields is
\* outside [0,1] or pace is <= 0, and so every Stats the constructor returns
\* has all its rate fields in [0,1] and pace > 0.
C1_StatsConstructionValidates ==
    call.op = "Stats" =>
        /\ (\/ \E f \in RateFields \cap DOMAIN call.kw :
                  ~ InUnitInterval(call.kw[f])
            \/ "pace" \in DOMAIN call.kw /\ Le(call.kw["pace"], Num(0)))
           => ret.kind = "raise"
        /\ ret.kind = "return" => StatsInvariant(ret.value)

\* C2: constructing a Team succeeds only when season > 1900; every season
\* <= 1900, 1900 itself included, is rejected.
C2_TeamSeasonAbove1900 ==
    call.op = "Team" =>
        /\ call.season <= 1900 => ret.kind = "raise"
        /\ ret.kind = "return" => ret.value.season > 1900

\* C7: a constructed Stats is immutable: assigning to one of its fields does
\* not change the field.
C7_StatsImmutable ==
    [][(stats.kind = "Stats" /\ call'.op = "setattr") => stats' = stats]_vars

(* ------------------------------------------------------------------ *)
(* fetchers.py: the site, as the requests of fetch_ncaam see it       *)
(* ------------------------------------------------------------------ *)

FirstSeason == 2023

\* Seasons a caller asks for; the site has no page for the last one.
FetchSeasons == {FirstSeason, FirstSeason + 1, FirstSeason + 2, FirstSeason + 3}

HasPage(season) == season \in {FirstSeason, FirstSeason + 1, FirstSeason + 2}

FetchNames == {"Duke", "Kansas", "Gonzaga"}

\* Schools listed in all four tables of a season.
Schools(season) ==
    IF season = FirstSeason THEN {"Duke", "Kansas"}
    ELSE IF season = FirstSeason + 1 THEN {"Duke", "Gonzaga"}
    ELSE {"Duke", "Kansas", "Gonzaga"}

SchoolIndex(name) ==
    CASE name = "Duke" -> 1 [] name = "Kansas" -> 2 [] OTHER -> 3

\* The columns of the four scraped tables that survive the drops, per school:
\* season totals of the school and of its opponents, and the advanced rates
\* in percent.
RawRow(season, name) ==
    LET k == SchoolIndex(name) + 3 * (season - FirstSeason) IN
    [SRS |-> 10 + k, SOS |-> 5 + k,
     FG |-> 900 + 10 * k, FGA |-> 2000, P3 |-> 250 + k, PA3 |-> 700 + 20 * k,
     FT |-> 400 + k, FTA |-> 550,
     oppFG |-> 800 + 10 * k, oppFGA |-> 2000, oppP3 |-> 200 + k,
     oppPA3 |-> 650 + 20 * k, oppFT |-> 350 + k, oppFTA |-> 500,
     Pace |-> 66 + k, TOVpct |-> 15 + k, ORBpct |-> 30 + k,
     oppTOVpct |-> 17 + k, oppORBpct |-> 27 + k]

\* a / b on two columns of numbers: pandas yields NaN for 0/0 and inf for x/0.
Ratio(a, b) ==
    IF b = 0
    THEN IF a = 0 THEN NaN ELSE PosInf
    ELSE Num((a * Scale) \div b)

\* column / 100
Percent(p) == Num((p * Scale) \div 100)

\* One row of merged_df: the columns the four cleaned tables contribute.
MergedRow(r) ==
    [simple_rating_system |-> Num(r.SRS * Scale),
     strength_of_schedule |-> Num(r.SOS * Scale),
     o_field_goal_percentage |-> Ratio(r.FG, r.FGA),
     o_three_point_rate |-> Ratio(r.PA3, r.FGA),
     o_three_point_percentage |-> Ratio(r.P3, r.PA3),
     o_free_throw_rate |-> Ratio(r.FTA, r.FGA),
     o_free_throw_percentage |-> Ratio(r.FT, r.FTA),
     d_field_goal_percentage |-> Ratio(r.oppFG, r.oppFGA),
     d_three_point_rate |-> Ratio(r.oppPA3, r.oppFGA),
     d_three_point_percentage |-> Ratio(r.oppP3, r.oppPA3),
     d_free_throw_rate |-> Ratio(r.oppFTA, r.oppFGA),
     d_free_throw_percentage |-> Ratio(r.oppFT, r.oppFTA),
     pace |-> Num(r.Pace * Scale),
     o_turnover_percentage |-> Percent(r.TOVpct),
     o_rebound_percentage |-> Percent(r.ORBpct),
     d_turnover_percentage |-> Percent(r.oppTOVpct),
     d_rebound_percentage |-> Percent(r.oppORBpct)]

\* The four pages of a season, scraped, cleaned and inner-joined on School.
MergedDf(season) ==
    [kind |-> "DataFrame",
     rows |-> [n \in Schools(season) |-> MergedRow(RawRow(season, n))]]

\* fetch_ncaam: [fetcher, row, ret] after the call.  The tables are scraped
\* only while self.ncaam_stats is None; online says whether requests.get
\* answers.
fetch_ncaam(self, season, team_name, online) ==
    LET scrape == self.ncaam_stats.kind = "None"
        df == IF scrape THEN MergedDf(season) ELSE self.ncaam_stats
        after == [self EXCEPT !.ncaam_stats = df]
    IN  IF scrape /\ ~ online
        THEN [fetcher |-> self, row |-> None, ret |-> Raise("ConnectionError")]
        ELSE IF scrape /\ ~ HasPage(season)
        THEN [fetcher |-> self, row |-> None, ret |-> Raise("ValueError")]
        ELSE IF team_name \notin DOMAIN df.rows
        THEN [fetcher |-> after, row |-> None, ret |-> Raise("KeyError")]
        ELSE [fetcher |-> after,
              row |-> [kind |-> "Series", data |-> df.rows[team_name]],
              ret |-> StatsInit(df.rows[team_name])]

\* fetch_ncaaw: the body is pass.
fetch_ncaaw(self, season, team_name) ==
    [fetcher |-> self, row |-> None, ret |-> Return(None)]

\* fetch: only the two college leagues are dispatched; for the others the
\* function falls off its end.
fetch(self, league, season, team_name, online) ==
    IF league = "ncaam" THEN fetch_ncaam(self, season, team_name, online)
    ELSE IF league = "ncaaw" THEN fetch_ncaaw(self, season, team_name)
    ELSE [fetcher |-> self, row |-> None, ret |-> Return(None)]

\* stats = fetcher.fetch(l, s, n)
Fetch ==
    \E l \in League, s \in FetchSeasons, n \in FetchNames, online \in BOOLEAN :
        LET r == fetch(fetcher, l, s, n, online) IN
        /\ call' = [op |-> "fetch", league |-> l, season |-> s, team_name |-> n]
        /\ fetcher' = r.fetcher
        /\ row' = r.row
        /\ ret' = r.ret
        /\ stats' = IF r.ret.kind = "return" THEN r.ret.value ELSE stats
        /\ UNCHANGED <<team, sim>>

\* fetcher = BBallRefStatFetcher()
NewFetcher ==
    /\ call' = [op |-> "BBallRefStatFetcher"]
    /\ fetcher' = FetcherInit
    /\ row' = None
    /\ ret' = Return(None)
    /\ UNCHANGED <<stats, team, sim>>

NextFetcher == Fetch \/ NewFetcher

SpecFetcher == Init /\ [][NextFetcher]_vars

\* C3: for every league, season and team name, fetch either returns a Stats
\* or fails with an error; it never completes normally without a Stats.
C3_FetchYieldsStatsOrFails ==
    call.op = "fetch" =>
        \/ ret.kind = "raise"
        \/ ret.kind = "return" /\ ret.value.kind = "Stats"

\* C10: fetch(NCAAM, season, team) is answered from the tables of the
\* requested season, whatever calls were made before on the same fetcher: the
\* row it builds the Stats from is that season's row of the team.
C10_FetchAnsweredFromRequestedSeason ==
    (call.op = "fetch" /\ call.league = "ncaam" /\ row.kind # "None") =>
        /\ HasPage(call.season)
        /\ call.team_name \in Schools(call.season)
        /\ row.data = MergedRow(RawRow(call.season, call.team_name))

\* C11: for a team present in all four scraped tables, the merged row that
\* fetch_ncaam passes to the Stats constructor supplies every field Stats
\* requires (the two-point rate and percentage fields included), so the call
\* returns a Stats instead of failing on a missing field.
C11_MergedRowSuppliesEveryStatsField ==
    (call.op = "fetch" /\ call.league = "ncaam" /\ row.kind = "Series") =>
        /\ StatsFields \subseteq DOMAIN row.data
        /\ ret.kind = "return"
        /\ ret.value.kind = "Stats"

(* ------------------------------------------------------------------ *)
(* simulator.py                                                       *)
(* ------------------------------------------------------------------ *)

\* Stat adjusters a caller may pass, named by the blend they apply.
BlendNames == {"mean", "min", "max"}

\* A valid Stats with the given pace (possessions per game) and turnover rate.
SimStats(pace, tov) ==
    StatsInit([BaseKwargs EXCEPT !["pace"] = Num(pace * Scale),
                                 !["o_turnover_percentage"] = tov]).value

\* Valid teams to simulate: two names, two paces, and a turnover rate of
\* either 0.5 or 1.0.
SimTeams ==
    {TeamInit(n, "ncaam", FirstSeason, SimStats(p, t)).value :
        n \in TeamNames, p \in {BasePace, BasePace + 3},
        t \in {Num(Scale \div 2), Num(Scale)}}

\* GameSimulator.__init__
GameSimulatorInit(home_team, away_team, neutral_site) ==
    [kind |-> "GameSimulator", home_team |-> home_team,
     away_team |-> away_team, neutral_site |-> neutral_site]

\* GameSimulator.simulate: the body is pass, so the call returns None and
\* leaves the simulator as it was.
simulate(self, stat_adjuster, verbose) == Return(None)

\* sim = GameSimulator(h, a, neutral)
NewSimulator ==
    \E h \in SimTeams, a \in SimTeams, neutral \in BOOLEAN :
        /\ call' = [op |-> "GameSimulator"]
        /\ sim' = GameSimulatorInit(h, a, neutral)
        /\ ret' = Return(None)
        /\ UNCHANGED <<stats, team, fetcher, row>>

\* result = sim.simulate(adjuster, verbose)
Simulate ==
    /\ sim.kind = "GameSimulator"
    /\ \E adj \in BlendNames, verbose \in BOOLEAN :
        /\ call' = [op |-> "simulate", stat_adjuster |-> adj, verbose |-> verbose]
        /\ ret' = simulate(sim, adj, verbose)
    /\ UNCHANGED <<stats, team, fetcher, row, sim>>

NextSimulator == NewSimulator \/ Simulate

SpecSimulator == Init /\ [][NextSimulator]_vars

\* C4: simulate for two valid teams returns a GameResult carrying the final
\* score of each side and the number of possessions elapsed, and the
\* possession trace when verbose is set.
C4_SimulateReturnsGameResult ==
    call.op = "simulate" =>
        /\ ret.kind = "return"
        /\ ret.value.kind = "GameResult"
        /\ {"home_score", "away_score", "possessions"} \subseteq DOMAIN ret.value
        /\ call.verbose => "trace" \in DOMAIN ret.value

\* Possessions a finished simulate call has played: those its GameResult
\* counts; a call that yields no GameResult has played none.
PossessionsPlayed ==
    IF ret.kind = "return" /\ ret.value.kind = "GameResult"
    THEN ret.value.possessions
    ELSE 0

\* Largest home-court multiplier considered, in percent; the design fixes the
\* multiplier but not its magnitude.
MaxHomeCourtPercent == 110

\* C5: every run of simulate plays exactly the number of possessions computed
\* from the average of the two paces, times the fixed home-court multiplier
\* when neutral_site is false: never fewer, never more (to within the
\* rounding of the total to a whole possession).
C5_PossessionsEqualPaceTotal ==
    call.op = "simulate" =>
        \E m \in (IF sim.neutral_site THEN {100} ELSE 100..MaxHomeCourtPercent) :
            LET sum == sim.home_team.stats.fields["pace"].v
                       + sim.away_team.stats.fields["pace"].v
                \* total = (sum / Scale / 2) * (m / 100)
                diff == PossessionsPlayed * Scale * 2 * 100 - sum * m
            IN  /\ diff < Scale * 2 * 100
                /\ 0 - diff < Scale * 2 * 100

(* ------------------------------------------------------------------ *)
(* protocols.py: StatAdjuster.adjust.  The protocol only declares the *)
(* method; its behaviour is the stat adjuster of the design.          *)
(* ------------------------------------------------------------------ *)

\* The quantities blended from an offensive rate and the defensive rate of
\* the same name.
BlendedRates ==
    {"turnover_percentage", "three_point_rate", "three_point_percentage",
     "two_point_percentage", "free_throw_rate", "free_throw_percentage"}

OffensiveField(q) ==
    CASE q = "turnover_percentage" -> "o_turnover_percentage"
      [] q = "three_point_rate" -> "o_three_point_rate"
      [] q = "three_point_percentage" -> "o_three_point_percentage"
      [] q = "two_point_percentage" -> "o_two_point_percentage"
      [] q = "free_throw_rate" -> "o_free_throw_rate"
      [] q = "free_throw_percentage" -> "o_free_throw_percentage"
      [] q = "rebound_percentage" -> "o_rebound_percentage"

DefensiveField(q) ==
    CASE q = "turnover_percentage" -> "d_turnover_percentage"
      [] q = "three_point_rate" -> "d_three_point_rate"
      [] q = "three_point_percentage" -> "d_three_point_percentage"
      [] q = "two_point_percentage" -> "d_two_point_percentage"
      [] q = "free_throw_rate" -> "d_free_throw_rate"
      [] q = "free_throw_percentage" -> "d_free_throw_percentage"
      [] q = "rebound_percentage" -> "d_rebound_percentage"

Min(a, b) == IF a <= b THEN a ELSE b

Max(a, b) == IF a >= b THEN a ELSE b

BlendProduct(name, x, y) == Num((x.v * y.v) \div Scale)

\* The blend policies: each is monotone in both arguments and maps (x, x)
\* to x.  The arguments are rates in [0,1].
Blend(name, x, y) ==
    CASE name = "mean" -> Num((x.v + y.v) \div 2)
      [] name = "min" -> Num(Min(x.v, y.v))
      [] name = "max" -> Num(Max(x.v, y.v))

\* 1 - x
Complement(x) == Num(Scale - x.v)

\* adjust(offense, defense): the effective per-possession probabilities of
\* the matchup, or InvalidMatchup when either Stats breaks its invariant.
adjust(offense, defense, blend) ==
    LET o == offense.stats.fields
        d == defense.stats.fields
        three == Blend(blend, o["o_three_point_rate"], d["d_three_point_rate"])
    IN  IF ~ (StatsInvariant(offense.stats) /\ StatsInvariant(defense.stats))
        THEN Raise("InvalidMatchup")
        ELSE Return(
            [kind |-> "MatchupProbabilities",
             rates |-> [q \in BlendedRates |->
                          Blend(blend, o[OffensiveField(q)], d[DefensiveField(q)])],
             two_point_rate |-> Complement(three),
             rebound_percentage |->
                 Blend(blend, o["o_rebound_percentage"],
                       Complement(d["d_rebound_percentage"]))])

LowRate == Scale \div 5

HighRate == Scale - LowRate

\* A Stats whose offensive rates are all o, defensive rates all d, and whose
\* rebound rates are oreb and dreb.
AdjStats(o, d, oreb, dreb) ==
    [kind |-> "Stats",
     fields |-> [f \in StatsFields |->
        IF f = "o_rebound_percentage" THEN Num(oreb)
        ELSE IF f = "d_rebound_percentage" THEN Num(dreb)
        ELSE IF f \in {OffensiveField(q) : q \in BlendedRates} THEN Num(o)
        ELSE IF f \in {DefensiveField(q) : q \in BlendedRates} THEN Num(d)
        ELSE BaseKwargs[f]]]

\* Sixteen valid teams, and one whose Stats was assigned a pace of 0 after
\* construction.
AdjTeams ==
    {TeamInit("Duke", "ncaam", FirstSeason, AdjStats(o, d, oreb, dreb)).value :
        o \in {LowRate, HighRate}, d \in {LowRate, HighRate},
        oreb \in {LowRate, HighRate}, dreb \in {LowRate, HighRate}}
    \cup {TeamInit("Kansas", "ncaam", FirstSeason,
                   StatsSetattr(ValidStats, "pace", Num(0))).value}

\* probs = adjuster.adjust(t, opp), the adjuster applying blend b
Adjust ==
    \E t \in AdjTeams, opp \in AdjTeams, b \in BlendNames :
        /\ call' = [op |-> "adjust", team |-> t, opponent |-> opp, blend |-> b]
        /\ ret' = adjust(t, opp, b)
        /\ UNCHANGED <<stats, team, fetcher, row, sim>>

NextAdjuster == Adjust

SpecAdjuster == Init /\ [][NextAdjuster]_vars

\* The effective probability of quantity q in the result of an adjust call.
Effective(q) ==
    IF q = "rebound_percentage"
    THEN ret.value.rebound_percentage
    ELSE ret.value.rates[q]

\* The call is adjust(t, t) for a valid t.
MirrorCall ==
    /\ call.op = "adjust"
    /\ call.team = call.opponent
    /\ StatsInvariant(call.team.stats)

\* C8 as stated: for every valid t and every blend that is monotone and maps
\* (x, x) to x, adjust(t, t) returns effective probabilities equal to t's own
\* raw offensive rates, for each blended quantity and for offensive-rebound
\* recovery.
C8_MirrorEqualsRawRates ==
    MirrorCall =>
        /\ ret.kind = "return"
        /\ \A q \in BlendedRates \cup {"rebound_percentage"} :
              Effective(q) = call.team.stats.fields[OffensiveField(q)]

\* The defensive input of quantity q: the defensive rate of the same name,
\* and for rebounds its complement.
DefensiveInput(q) ==
    IF q = "rebound_percentage"
    THEN Complement(call.team.stats.fields[DefensiveField(q)])
    ELSE call.team.stats.fields[DefensiveField(q)]

\* C8 amended: adjust(t, t) returns, for each quantity whose defensive input
\* in t (the d_ rate, or 1 - d_rebound_percentage for rebounds) equals t's
\* offensive rate, an effective probability equal to that offensive rate.
C8_MirrorEqualsRawRatesWhereInputsAgree ==
    MirrorCall =>
        /\ ret.kind = "return"
        /\ \A q \in BlendedRates \cup {"rebound_percentage"} :
              DefensiveInput(q) = call.team.stats.fields[OffensiveField(q)]
                  => Effective(q) = call.team.stats.fields[OffensiveField(q)]

\* A mirror call on a team whose offensive and defensive inputs agree for the
\* rebound (o_rebound_percentage = 1 - d_rebound_percentage, the two rates
\* themselves unequal) and for every other quantity, under the mean blend.
C8_Witness ==
    /\ MirrorCall
    /\ call.blend = "mean"
    /\ ret.kind = "return"
    /\ \A q \in BlendedRates \cup {"rebound_percentage"} :
          DefensiveInput(q) = call.team.stats.fields[OffensiveField(q)]
    /\ call.team.stats.fields["o_rebound_percentage"]
          # call.team.stats.fields["d_rebound_percentage"]

====
